---- MODULE Spec2Model ----
(***************************************************************************)
(* Model of rode (src/src/main.rs): an actix-web service over a pooled     *)
(* PostgreSQL store holding person records.  The state is the process's    *)
(* startup position (main), the people table, and one record per request   *)
(* in flight: the handler's position between its await points, what it     *)
(* holds, and the response it produced.                                    *)
(*                                                                         *)
(* Text is modelled as a sequence of one-character strings, so that        *)
(* substring search, LIKE patterns, date parsing and number rendering are  *)
(* computed, not assumed.                                                  *)
(***************************************************************************)
EXTENDS Integers, Sequences, FiniteSets, TLC

(***************************************************************************)
(* Bounds of the model.                                                    *)
(***************************************************************************)
NReq == 2      \* requests the front door receives in one behaviour
NIds == 2      \* size of the space Uuid::new_v4 draws from
NCrowd == 15   \* further requests in flight at once, counted, not followed

Reqs == 1..NReq
Ids == 1..NIds

(***************************************************************************)
(* Text helpers.                                                           *)
(***************************************************************************)
Digits == <<"0", "1", "2", "3", "4", "5", "6", "7", "8", "9">>

IsDigit(c) == \E i \in 1..10 : Digits[i] = c

DigitVal(c) == (CHOOSE i \in 1..10 : Digits[i] = c) - 1

\* Option<T>
None == [some |-> FALSE, v |-> <<>>]
Some(x) == [some |-> TRUE, v |-> x]

RECURSIVE Concat(_)
Concat(ss) == IF ss = <<>> THEN <<>> ELSE Head(ss) \o Concat(Tail(ss))

\* s contains t as a contiguous substring
Contains(s, t) ==
    \E i \in 0..(Len(s) - Len(t)) : SubSeq(s, i + 1, i + Len(t)) = t

(***************************************************************************)
(* chrono::NaiveDate as used by PersonInput.nascimento / PersonOutput.     *)
(***************************************************************************)
NoDate == [y |-> 0, m |-> 0, d |-> 0]

IsLeap(y) == (y % 4 = 0 /\ y % 100 # 0) \/ y % 400 = 0

DaysIn(y, m) ==
    IF m \in {4, 6, 9, 11} THEN 30
    ELSE IF m = 2 THEN (IF IsLeap(y) THEN 29 ELSE 28)
    ELSE 31

RECURSIVE DigitsLen(_)
DigitsLen(s) ==
    IF s # <<>> /\ IsDigit(Head(s)) THEN 1 + DigitsLen(Tail(s)) ELSE 0

RECURSIVE ToNum(_)
ToNum(s) ==
    IF s = <<>> THEN 0 ELSE ToNum(SubSeq(s, 1, Len(s) - 1)) * 10 + DigitVal(s[Len(s)])

\* NaiveDate's FromStr: year "-" month "-" day, each a run of digits (the
\* month and day of one or two digits, zero padding optional), and the
\* result must be a date of the calendar.
ParseDate(s) ==
    LET n1 == DigitsLen(s)
        r1 == SubSeq(s, n1 + 1, Len(s))
        r2 == IF r1 = <<>> THEN <<>> ELSE Tail(r1)
        n2 == DigitsLen(r2)
        r3 == SubSeq(r2, n2 + 1, Len(r2))
        r4 == IF r3 = <<>> THEN <<>> ELSE Tail(r3)
        n3 == DigitsLen(r4)
        y == ToNum(SubSeq(s, 1, n1))
        m == ToNum(SubSeq(r2, 1, n2))
        d == ToNum(SubSeq(r4, 1, n3))
        shape == /\ n1 \in 1..4
                 /\ r1 # <<>> /\ Head(r1) = "-"
                 /\ n2 \in 1..2
                 /\ r3 # <<>> /\ Head(r3) = "-"
                 /\ n3 \in 1..2
                 /\ n3 = Len(r4)
    IN  IF shape /\ m \in 1..12 /\ d \in 1..DaysIn(y, m)
        THEN [ok |-> TRUE, date |-> [y |-> y, m |-> m, d |-> d]]
        ELSE [ok |-> FALSE, date |-> NoDate]

RECURSIVE ToText(_)
\* decimal rendering of a natural number (count(1)::TEXT, and the digits of
\* a date)
ToText(n) ==
    IF n < 10 THEN <<Digits[n + 1]>>
    ELSE ToText(n \div 10) \o <<Digits[(n % 10) + 1]>>

RECURSIVE Pad(_, _)
Pad(s, w) == IF Len(s) >= w THEN s ELSE Pad(<<"0">> \o s, w)

\* NaiveDate's Serialize/Display: %Y-%m-%d, zero padded
FormatDate(dt) ==
    Pad(ToText(dt.y), 4) \o <<"-">> \o Pad(ToText(dt.m), 2) \o <<"-">> \o Pad(ToText(dt.d), 2)

(***************************************************************************)
(* uuid::Uuid.  A value is a number of Ids; a textual form is a record.    *)
(* parse_str accepts the hyphenated and the simple (no hyphens) forms and  *)
(* rejects anything else; Display renders the hyphenated form.             *)
(***************************************************************************)
Hyphenated(n) == [form |-> "hyphenated", n |-> n]
Simple(n) == [form |-> "simple", n |-> n]
Garbage == [form |-> "garbage", n |-> 0]

ParseUuid(s) ==
    IF s.form \in {"hyphenated", "simple"}
    THEN [ok |-> TRUE, id |-> s.n]
    ELSE [ok |-> FALSE, id |-> 0]

UuidToString(n) == Hyphenated(n)

(***************************************************************************)
(* JSON request bodies and serde's derived Deserialize for PersonInput.    *)
(***************************************************************************)
JAbsent == [t |-> "absent", s |-> <<>>, a |-> <<>>]
JNull == [t |-> "null", s |-> <<>>, a |-> <<>>]
JNum == [t |-> "num", s |-> <<>>, a |-> <<>>]
JStr(s) == [t |-> "str", s |-> s, a |-> <<>>]
JArr(a) == [t |-> "arr", s |-> <<>>, a |-> a]

JsonBody(apelido, nome, nascimento, stack) ==
    [wf |-> TRUE, apelido |-> apelido, nome |-> nome,
     nascimento |-> nascimento, stack |-> stack]

\* bytes that are not a JSON object at all
NotJson ==
    [wf |-> FALSE, apelido |-> JAbsent, nome |-> JAbsent,
     nascimento |-> JAbsent, stack |-> JAbsent]

NoPerson == [apelido |-> <<>>, nome |-> <<>>, nascimento |-> NoDate, stack |-> None]

\* Option<Vec<String>>: a missing field and null are None, an array of
\* strings is Some, anything else is an error
StackOk(j) ==
    \/ j.t \in {"absent", "null"}
    \/ j.t = "arr" /\ \A i \in 1..Len(j.a) : j.a[i].t = "str"

StackOf(j) ==
    IF j.t = "arr" THEN Some([i \in 1..Len(j.a) |-> j.a[i].s]) ELSE None

\* (mutant) a deserializer that does not look at the stack's elements
FromSlice_AnyStack(b) ==
    IF /\ b.wf
       /\ b.apelido.t = "str"
       /\ b.nome.t = "str"
       /\ b.nascimento.t = "str"
       /\ ParseDate(b.nascimento.s).ok
    THEN [ok |-> TRUE,
          p |-> [apelido |-> b.apelido.s, nome |-> b.nome.s,
                 nascimento |-> ParseDate(b.nascimento.s).date,
                 stack |-> StackOf(b.stack)]]
    ELSE [ok |-> FALSE, p |-> NoPerson]

\* serde_json::from_slice::<PersonInput>(&body)
FromSlice(b) ==
    IF /\ b.wf
       /\ b.apelido.t = "str"
       /\ b.nome.t = "str"
       /\ b.nascimento.t = "str"
       /\ ParseDate(b.nascimento.s).ok
       /\ StackOk(b.stack)
    THEN [ok |-> TRUE,
          p |-> [apelido |-> b.apelido.s, nome |-> b.nome.s,
                 nascimento |-> ParseDate(b.nascimento.s).date,
                 stack |-> StackOf(b.stack)]]
    ELSE [ok |-> FALSE, p |-> NoPerson]

\* (mutant) the output without the row's stack
PersonOutput_NoStack(row) ==
    [id |-> UuidToString(row.id), apelido |-> row.apelido, nome |-> row.nome,
     nascimento |-> FormatDate(row.nascimento), stack |-> None]

\* serde's Serialize for PersonOutput, built from a row of people
PersonOutput(row) ==
    [id |-> UuidToString(row.id), apelido |-> row.apelido, nome |-> row.nome,
     nascimento |-> FormatDate(row.nascimento), stack |-> row.stack]

(***************************************************************************)
(* The people table: id primary key, apelido unique, for_search derived.   *)
(***************************************************************************)
\* the derived search column: apelido, nome and the stack entries, joined
ForSearch(row) ==
    row.apelido \o row.nome \o (IF row.stack.some THEN Concat(row.stack.v) ELSE <<>>)

\* (mutant) a table whose id is not a key
InsertViolation_ApelidoOnly(rows, row) ==
    IF \E x \in rows : x.apelido = row.apelido THEN "23505" ELSE ""

\* the constraint check of an insert: the SQLSTATE raised, "" when none
InsertViolation(rows, row) ==
    IF \E x \in rows : x.id = row.id \/ x.apelido = row.apelido
    THEN "23505"
    ELSE ""

RECURSIVE Like(_, _)
\* s LIKE p: % matches any run of characters, _ any one character
Like(s, p) ==
    IF p = <<>> THEN s = <<>>
    ELSE IF Head(p) = "%"
         THEN Like(s, Tail(p)) \/ (s # <<>> /\ Like(Tail(s), p))
         ELSE /\ s # <<>>
              /\ (Head(p) = "_" \/ Head(p) = Head(s))
              /\ Like(Tail(s), Tail(p))

\* select ... from people where for_search like ('%' || $1 || '%')
SearchRows(rows, t) ==
    {x \in rows : Like(ForSearch(x), <<"%">> \o t \o <<"%">>)}

\* (mutant) the select without its where clause
RowsById_NoWhere(rows, id) == rows

\* select ... from people where id = $1
RowsById(rows, id) == {x \in rows : x.id = id}

(***************************************************************************)
(* The requests the clients send.                                          *)
(***************************************************************************)
D1990 == <<"1", "9", "9", "0", "-", "0", "1", "-", "0", "1">>
D2000 == <<"2", "0", "0", "0", "-", "2", "-", "2", "9">>
DMonth13 == <<"1", "9", "9", "0", "-", "1", "3", "-", "0", "1">>

ValidBodies ==
    { JsonBody(JStr(<<"a", "b">>), JStr(<<"b">>), JStr(D2000),
               JArr(<<JStr(<<"b">>), JStr(<<"a">>)>>)),
      JsonBody(JStr(<<"b">>), JStr(<<"a">>), JStr(D1990), JNull) }

InvalidBodies ==
    { JsonBody(JAbsent, JStr(<<"c">>), JStr(D1990), JAbsent),
      JsonBody(JStr(<<"a", "b">>), JNum, JStr(D1990), JAbsent),
      JsonBody(JStr(<<"a", "b">>), JStr(<<"c">>), JStr(DMonth13), JAbsent),
      JsonBody(JStr(<<"a", "b">>), JStr(<<"c">>), JStr(D1990), JArr(<<JStr(<<"a">>), JNum>>)),
      NotJson }

Bodies == ValidBodies \cup InvalidBodies

Paths == {Hyphenated(n) : n \in Ids} \cup {Simple(1), Garbage}

NoQuery == [has_t |-> FALSE, t |-> <<>>]
QueryT(t) == [has_t |-> TRUE, t |-> t]

Queries == {NoQuery, QueryT(<<>>), QueryT(<<"a", "b">>), QueryT(<<"_">>)}

NoReq == [kind |-> "none", body |-> NotJson, path |-> Garbage, query |-> NoQuery]

Requests ==
    {[NoReq EXCEPT !.kind = "create", !.body = b] : b \in Bodies}
    \cup {[NoReq EXCEPT !.kind = "get", !.path = p] : p \in Paths}
    \cup {[NoReq EXCEPT !.kind = "search", !.query = q] : q \in Queries}
    \cup {[NoReq EXCEPT !.kind = "count"]}

(***************************************************************************)
(* Responses.  state is "pending" while the request is in flight, "sent"   *)
(* once a response went out, "closed" when the handler panicked: the       *)
(* connection's task ends and the client receives no response.             *)
(***************************************************************************)
NoResp ==
    [state |-> "pending", status |-> 0, location |-> <<>>, text |-> <<>>,
     json |-> "none", people |-> {}]

Closed == [NoResp EXCEPT !.state = "closed"]

Status(code, text) == [NoResp EXCEPT !.state = "sent", !.status = code, !.text = text]

\* (mutant) a 201 without its Location header
Created_NoLocation(id) == [NoResp EXCEPT !.state = "sent", !.status = 201]

\* HttpResponse::Created().insert_header(("Location", format!("/pessoas/{id}")))
Created(id) ==
    [NoResp EXCEPT !.state = "sent", !.status = 201,
                   !.location = <<"/pessoas/", UuidToString(id)>>]

\* HttpResponse::Ok().json(person)
OkPerson(row) ==
    [NoResp EXCEPT !.state = "sent", !.status = 200, !.json = "object",
                   !.people = {PersonOutput(row)}]

\* HttpResponse::Ok().json(people); the order of the array is the store's
OkPeople(rows) ==
    [NoResp EXCEPT !.state = "sent", !.status = 200, !.json = "array",
                   !.people = {PersonOutput(x) : x \in rows}]

\* a handler's locals: the deserialized input, the id (generated by Create,
\* parsed by GetByID), the result of the insert
NoLocal == [p |-> NoPerson, id |-> 0, res |-> ""]

(***************************************************************************)
(* The database outlives the process: the table a process finds at startup *)
(* is empty or holds rows that earlier Creates wrote.                      *)
(***************************************************************************)
SeedAB ==
    [id |-> 1, apelido |-> <<"a", "b">>, nome |-> <<"c">>,
     nascimento |-> [y |-> 1990, m |-> 1, d |-> 1], stack |-> None]

SeedStores == {{}, {SeedAB}}

(***************************************************************************)
(* State.                                                                  *)
(***************************************************************************)
VARIABLES
    main_pc,    \* position of main: build, get, migrate, bind, serving, exited
    main_conn,  \* main holds the connection it borrowed for the migrations
    migrated,   \* the migrations ran to completion
    bound,      \* the listening socket is bound
    store0,     \* rows of the people table when the process started
    store,      \* rows of the people table
    pc,         \* pc[r]: position of request r's handler
    req,        \* req[r]: the request as received
    conn,       \* conn[r]: the handler holds a pooled Client
    local,      \* local[r]: the handler's locals (p, id, the insert's result)
    resp,       \* resp[r]: the response
    crowd       \* the requests in flight besides those of Reqs, by position

vars ==
    <<main_pc, main_conn, migrated, bound, store0, store, pc, req, conn, local, resp,
      crowd>>

main_vars == <<main_pc, main_conn, migrated, bound>>

\* Pool::builder(manager).max_size(16)
max_size == 16

\* The requests of Reqs are followed step by step.  The server serves any
\* number of requests at once; the others are counted only: how many wait in
\* pool.get() and how many hold a Client.
NoCrowd == [wait |-> 0, hold |-> 0]

\* connections borrowed from the pool at this moment
Borrowed ==
    (IF main_conn THEN 1 ELSE 0) + Cardinality({r \in Reqs : conn[r]}) + crowd.hold

\* (mutant) a pool without an upper bound
Available_Always == TRUE

\* the pool has a connection to hand out: fewer than max_size are borrowed
Available == Borrowed < max_size

Init ==
    /\ main_pc = "build"
    /\ main_conn = FALSE
    /\ migrated = FALSE
    /\ bound = FALSE
    /\ store0 \in SeedStores
    /\ store = store0
    /\ pc = [r \in Reqs |-> "idle"]
    /\ req = [r \in Reqs |-> NoReq]
    /\ conn = [r \in Reqs |-> FALSE]
    /\ local = [r \in Reqs |-> NoLocal]
    /\ resp = [r \in Reqs |-> NoResp]
    /\ crowd = NoCrowd

(***************************************************************************)
(* main                                                                    *)
(***************************************************************************)
req_vars == <<store0, store, pc, req, conn, local, resp, crowd>>

\* a panic or an Err return of main: the process ends, its values dropped
MainExit ==
    /\ main_pc' = "exited"
    /\ main_conn' = FALSE
    /\ UNCHANGED <<migrated, bound>>

\* let pool = Pool::builder(manager).max_size(16).build().unwrap();
MainBuildPool ==
    /\ main_pc = "build"
    /\ \E ok \in BOOLEAN :
         IF ok THEN main_pc' = "get" /\ UNCHANGED <<main_conn, migrated, bound>>
         ELSE MainExit
    /\ UNCHANGED req_vars

\* let mut conn = pool.get().await.unwrap();
MainGetConn ==
    /\ main_pc = "get"
    /\ Available
    /\ \E ok \in BOOLEAN :
         IF ok THEN main_pc' = "migrate" /\ main_conn' = TRUE /\ UNCHANGED <<migrated, bound>>
         ELSE MainExit
    /\ UNCHANGED req_vars

\* (mutant) the migrations' result is not unwrapped: startup goes on
MainMigrate_Unchecked ==
    /\ main_pc = "migrate"
    /\ \E ok \in BOOLEAN :
         main_pc' = "bind" /\ migrated' = ok /\ UNCHANGED <<main_conn, bound>>
    /\ UNCHANGED req_vars

\* embedded::migrations::runner().run_async(client).await.unwrap();
MainMigrate ==
    /\ main_pc = "migrate"
    /\ \E ok \in BOOLEAN :
         IF ok THEN main_pc' = "bind" /\ migrated' = TRUE /\ UNCHANGED <<main_conn, bound>>
         ELSE MainExit
    /\ UNCHANGED req_vars

\* HttpServer::new(..).bind(("0.0.0.0", 80))?.run(); server.await
\* conn is still in scope: main keeps its connection while the server runs
MainBind ==
    /\ main_pc = "bind"
    /\ \E ok \in BOOLEAN :
         IF ok THEN main_pc' = "serving" /\ bound' = TRUE /\ UNCHANGED <<main_conn, migrated>>
         ELSE MainExit
    /\ UNCHANGED req_vars

(***************************************************************************)
(* The front door and the pieces the handlers share.                       *)
(***************************************************************************)
\* the handler returns: its Client goes back to the pool, the response out
Finish(r, response) ==
    /\ pc' = [pc EXCEPT ![r] = "done"]
    /\ conn' = [conn EXCEPT ![r] = FALSE]
    /\ resp' = [resp EXCEPT ![r] = response]

\* (mutant) a panic that does not give the Client back
Panic_Leak(r) ==
    /\ pc' = [pc EXCEPT ![r] = "done"]
    /\ resp' = [resp EXCEPT ![r] = Closed]
    /\ UNCHANGED conn

\* unwrap() of an Err: the handler's task unwinds, its Client is dropped
\* back to the pool, and the client's connection closes with no response
Panic(r) == Finish(r, Closed)

\* the handler moves on to its next await point
Goto(r, next) ==
    /\ pc' = [pc EXCEPT ![r] = next]
    /\ UNCHANGED resp

\* the handler's first position
Entry(kind) == IF kind = "create" THEN "read_body" ELSE "acquire"

\* (mutant) Q with an optional t: every query string deserializes
QueryExtracts_Optional(q) == TRUE

\* web::Query<Q>: Q.t is a required String, so a query string deserializes
\* into Q only when it has a t
QueryExtracts(q) == q.has_t

\* The server accepts a request and routes it.  web::Query<Q> is extracted
\* before search_people runs; a query string that does not deserialize is
\* answered 400 by the extractor.
\* Requests are numbered in their order of arrival.
Dispatch(r) ==
    /\ main_pc = "serving"
    /\ pc[r] = "idle"
    /\ \A q \in Reqs : q < r => pc[q] # "idle"
    /\ \E q \in Requests :
         /\ req' = [req EXCEPT ![r] = q]
         /\ IF q.kind = "search" /\ ~QueryExtracts(q.query)
            THEN Finish(r, Status(400, <<"Query deserialize error">>))
            ELSE Goto(r, Entry(q.kind)) /\ UNCHANGED conn
    /\ UNCHANGED <<main_vars, crowd, store0, store, local>>

\* let client: Client = pool.get().await.unwrap();
\* The pool hands out at most max_size connections; a caller beyond that
\* waits. Creating or recycling the connection can fail.
PoolGet(r, next) ==
    /\ pc[r] = "acquire"
    /\ Available
    /\ \E ok \in BOOLEAN :
         IF ok
         THEN /\ conn' = [conn EXCEPT ![r] = TRUE]
              /\ Goto(r, next)
         ELSE Panic(r)
    /\ UNCHANGED <<main_vars, crowd, store0, store, req, local>>

\* (mutant) a handler that, holding its Client, waits for the pool to have
\* another one before it goes on
PrepareCached_SecondGet(r, next) ==
    /\ pc[r] = "prepare"
    /\ Available
    /\ Goto(r, next)
    /\ UNCHANGED <<main_vars, crowd, store0, store, req, local, conn>>

\* let stmt = client.prepare_cached(..).await.unwrap();
PrepareCached(r, next) ==
    /\ pc[r] = "prepare"
    /\ \E ok \in BOOLEAN :
         IF ok
         THEN Goto(r, next) /\ UNCHANGED conn
         ELSE Panic(r)
    /\ UNCHANGED <<main_vars, crowd, store0, store, req, local>>

(***************************************************************************)
(* handlers::create_person                                                 *)
(***************************************************************************)
UNIQUE_VIOLATION == "23505"
INTEGRITY_CONSTRAINT_VIOLATION == "23000"

\* errors a store can raise on the insert besides the unique violation:
\* the generic integrity error, a check violation (of class 23 too), and
\* an error that carries no SQLSTATE ("none": the connection was lost)
InsertFaults == {"23000", "23514", "none"}

\* (mutant) the match without its UNIQUE_VIOLATION arm
CreateErrorStatus_NoUniqueArm(code) ==
    IF code = "none" THEN 500
    ELSE IF code = INTEGRITY_CONSTRAINT_VIOLATION THEN 422
    ELSE 500

\* the match on e.code() of create_person
CreateErrorStatus(code) ==
    IF code = "none" THEN 500
    ELSE IF code = UNIQUE_VIOLATION THEN 422
    ELSE IF code = INTEGRITY_CONSTRAINT_VIOLATION THEN 422
    ELSE 500

ErrorText(status) ==
    IF status = 422 THEN <<"Unprocessable Entity">> ELSE <<"Internal Server Error">>

\* the body is read chunk by chunk, then deserialized
CreateReadBody(r) ==
    /\ pc[r] = "read_body"
    /\ \E io \in BOOLEAN :
         LET parsed == FromSlice(req[r].body) IN
         IF ~io
         THEN Finish(r, Status(400, <<"Payload error">>)) /\ UNCHANGED local
         ELSE IF ~parsed.ok
         THEN Finish(r, Status(422, ErrorText(422))) /\ UNCHANGED local
         ELSE /\ Goto(r, "acquire")
              /\ local' = [local EXCEPT ![r].p = parsed.p]
              /\ UNCHANGED conn
    /\ UNCHANGED <<main_vars, crowd, store0, store, req>>

CreateAcquire(r) == req[r].kind = "create" /\ PoolGet(r, "prepare")

CreatePrepare(r) == req[r].kind = "create" /\ PrepareCached(r, "insert")

\* the row the insert statement writes
NewRow(id, p) ==
    [id |-> id, apelido |-> p.apelido, nome |-> p.nome,
     nascimento |-> p.nascimento, stack |-> p.stack]

\* (mutant) an insert that replaces the row carrying the apelido
\* (insert .. on conflict (apelido) do update)
CreateInsert_Upsert(r) ==
    /\ pc[r] = "insert"
    /\ \E id \in Ids :
         LET row == NewRow(id, local[r].p) IN
         /\ store' = {x \in store : x.apelido # row.apelido} \cup {row}
         /\ local' = [local EXCEPT ![r].id = id, ![r].res = "ok"]
    /\ Goto(r, "respond")
    /\ UNCHANGED <<main_vars, crowd, store0, req, conn>>

\* let id = Uuid::new_v4(); client.query(&stmt, &[&id, ..]).await
\* The store executes the statement; the handler has not resumed yet.
\* Either the statement fails for a reason of the store's own (the id is
\* then never used again and is not kept), or the constraints decide.
CreateInsert(r) ==
    /\ pc[r] = "insert"
    /\ \E id \in Ids, fault \in InsertFaults \cup {""} :
         LET row == NewRow(id, local[r].p)
             code == IF fault # "" THEN fault ELSE InsertViolation(store, row)
         IN /\ store' = IF code = "" THEN store \cup {row} ELSE store
            /\ local' = [local EXCEPT ![r].id = IF fault # "" THEN 0 ELSE id,
                                      ![r].res = IF code = "" THEN "ok" ELSE code]
    /\ Goto(r, "respond")
    /\ UNCHANGED <<main_vars, crowd, store0, req, conn>>

\* the handler resumes with the query's result and returns
CreateRespond(r) ==
    /\ pc[r] = "respond"
    /\ IF local[r].res = "ok"
       THEN Finish(r, Created(local[r].id))
       ELSE Finish(r, Status(CreateErrorStatus(local[r].res),
                             ErrorText(CreateErrorStatus(local[r].res))))
    /\ UNCHANGED <<main_vars, crowd, store0, store, req, local>>

(***************************************************************************)
(* handlers::get_person                                                    *)
(***************************************************************************)
GetAcquire(r) == req[r].kind = "get" /\ PoolGet(r, "parse")

\* let person_id = Uuid::parse_str(id.into_inner().as_str()).unwrap();
GetParse(r) ==
    /\ pc[r] = "parse"
    /\ LET parsed == ParseUuid(req[r].path) IN
         IF parsed.ok
         THEN /\ Goto(r, "prepare")
              /\ local' = [local EXCEPT ![r].id = parsed.id]
              /\ UNCHANGED conn
         ELSE Panic(r) /\ UNCHANGED local
    /\ UNCHANGED <<main_vars, crowd, store0, store, req>>

GetPrepare(r) == req[r].kind = "get" /\ PrepareCached(r, "query")

\* client.query_opt(&stmt, &[&person_id]).await.unwrap(), then the match
GetQuery(r) ==
    /\ pc[r] = "query"
    /\ req[r].kind = "get"
    /\ \E ok \in BOOLEAN :
         LET rows == RowsById(store, local[r].id) IN
         IF ~ok \/ Cardinality(rows) > 1 THEN Panic(r)
         ELSE IF rows = {} THEN Finish(r, Status(404, <<>>))
         ELSE Finish(r, OkPerson(CHOOSE x \in rows : TRUE))
    /\ UNCHANGED <<main_vars, crowd, store0, store, req, local>>

(***************************************************************************)
(* handlers::search_people                                                 *)
(***************************************************************************)
SearchAcquire(r) == req[r].kind = "search" /\ PoolGet(r, "prepare")

SearchPrepare(r) == req[r].kind = "search" /\ PrepareCached(r, "query")

\* client.query(&stmt, &[&query.t]).await.unwrap(), then the map to json
SearchQuery(r) ==
    /\ pc[r] = "query"
    /\ req[r].kind = "search"
    /\ \E ok \in BOOLEAN :
         IF ~ok THEN Panic(r)
         ELSE Finish(r, OkPeople(SearchRows(store, req[r].query.t)))
    /\ UNCHANGED <<main_vars, crowd, store0, store, req, local>>

(***************************************************************************)
(* handlers::count_people                                                  *)
(***************************************************************************)
CountAcquire(r) == req[r].kind = "count" /\ PoolGet(r, "prepare")

CountPrepare(r) == req[r].kind = "count" /\ PrepareCached(r, "query")

\* (mutant) a count that is one too many
CountText_OffByOne(rows) == ToText(Cardinality(rows) + 1)

\* select count(1)::TEXT from people
CountText(rows) == ToText(Cardinality(rows))

\* client.query_one(&stmt, &[]).await.unwrap(); HttpResponse::Ok().body(count)
CountQuery(r) ==
    /\ pc[r] = "query"
    /\ req[r].kind = "count"
    /\ \E ok \in BOOLEAN :
         IF ~ok THEN Panic(r)
         ELSE Finish(r, Status(200, CountText(store)))
    /\ UNCHANGED <<main_vars, crowd, store0, store, req, local>>

(***************************************************************************)
(* The requests that are counted only.  Each is a handler at its           *)
(* pool.get(), then one holding a Client until it returns or panics.       *)
(***************************************************************************)
handler_vars == <<store0, store, pc, req, conn, local, resp>>

\* a further request is routed to its handler and reaches pool.get()
CrowdArrive ==
    /\ main_pc = "serving"
    /\ crowd.wait + crowd.hold < NCrowd
    /\ crowd' = [crowd EXCEPT !.wait = @ + 1]
    /\ UNCHANGED <<main_vars, handler_vars>>

\* pool.get().await.unwrap() of one of them: a Client, or the panic
CrowdAcquire ==
    /\ crowd.wait > 0
    /\ Available
    /\ \E ok \in BOOLEAN :
         crowd' = IF ok THEN [wait |-> crowd.wait - 1, hold |-> crowd.hold + 1]
                  ELSE [crowd EXCEPT !.wait = @ - 1]
    /\ UNCHANGED <<main_vars, handler_vars>>

\* one of them returns or panics: its Client goes back to the pool
CrowdRelease ==
    /\ crowd.hold > 0
    /\ crowd' = [crowd EXCEPT !.hold = @ - 1]
    /\ UNCHANGED <<main_vars, handler_vars>>

(***************************************************************************)
(* The specification.                                                      *)
(***************************************************************************)
Next ==
    \/ MainBuildPool
    \/ MainGetConn
    \/ MainMigrate
    \/ MainBind
    \/ \E r \in Reqs : Dispatch(r)
    \/ \E r \in Reqs : CreateReadBody(r)
    \/ \E r \in Reqs : CreateAcquire(r)
    \/ \E r \in Reqs : CreatePrepare(r)
    \/ \E r \in Reqs : CreateInsert(r)
    \/ \E r \in Reqs : CreateRespond(r)
    \/ \E r \in Reqs : GetAcquire(r)
    \/ \E r \in Reqs : GetParse(r)
    \/ \E r \in Reqs : GetPrepare(r)
    \/ \E r \in Reqs : GetQuery(r)
    \/ \E r \in Reqs : SearchAcquire(r)
    \/ \E r \in Reqs : SearchPrepare(r)
    \/ \E r \in Reqs : SearchQuery(r)
    \/ \E r \in Reqs : CountAcquire(r)
    \/ \E r \in Reqs : CountPrepare(r)
    \/ \E r \in Reqs : CountQuery(r)

Spec == Init /\ [][Next]_vars

(***************************************************************************)
(* The server under load: the requests of Reqs are Counts, the handler     *)
(* with the fewest steps, among up to NCrowd further requests.  The        *)
(* runtime polls every task that can run, the store answers every          *)
(* statement, and the pool's semaphore hands a returned connection to its  *)
(* waiters in turn, so none of them is passed over for ever.               *)
(***************************************************************************)
DispatchCount(r) == Dispatch(r) /\ req'[r].kind = "count"

NextPool ==
    \/ MainBuildPool
    \/ MainGetConn
    \/ MainMigrate
    \/ MainBind
    \/ \E r \in Reqs : DispatchCount(r)
    \/ \E r \in Reqs : CountAcquire(r)
    \/ \E r \in Reqs : CountPrepare(r)
    \/ \E r \in Reqs : CountQuery(r)
    \/ CrowdArrive
    \/ CrowdAcquire
    \/ CrowdRelease

PoolFairness ==
    /\ \A r \in Reqs : SF_vars(CountAcquire(r))
    /\ \A r \in Reqs : WF_vars(CountPrepare(r))
    /\ \A r \in Reqs : WF_vars(CountQuery(r))
    /\ WF_vars(CrowdRelease)

SpecPool == Init /\ [][NextPool]_vars /\ PoolFairness

(***************************************************************************)
(* Vocabulary of the properties.                                           *)
(***************************************************************************)
\* r is a Create whose body deserializes
ValidCreate(r) == req[r].kind = "create" /\ req[r].body \in ValidBodies

\* r was answered with this status
Answered(r, status) == resp[r].state = "sent" /\ resp[r].status = status

\* r's insert was executed and the table's constraints alone decided it
InsertDecided(r) == pc[r] = "done" /\ local[r].res \in {"ok", UNIQUE_VIOLATION}

RowsWith(apelido) == {x \in store : x.apelido = apelido}

\* the apelido a Create submits, read off the JSON body
Submitted(r) == req[r].body.apelido.s

\* the row r wrote
RowOf(r) == NewRow(local[r].id, local[r].p)

Wrote(r) == local[r].res = "ok"

\* pairs of distinct Creates that carry the same apelido
SameApelido ==
    {pr \in Reqs \X Reqs :
        /\ pr[1] # pr[2]
        /\ ValidCreate(pr[1]) /\ ValidCreate(pr[2])
        /\ Submitted(pr[1]) = Submitted(pr[2])}

(***************************************************************************)
(* C1                                                                      *)
(***************************************************************************)
\* C1 as stated: of any two Creates with the same apelido whose inserts
\* both ran, exactly one is answered 201, the other 422, and exactly one row
\* with the apelido exists afterwards.  (Read in its favour: only pairs whose
\* inserts no store fault disturbed are looked at.)
C1_AsStated ==
    \A pr \in SameApelido :
        InsertDecided(pr[1]) /\ InsertDecided(pr[2]) =>
            /\ \/ Answered(pr[1], 201) /\ Answered(pr[2], 422)
               \/ Answered(pr[1], 422) /\ Answered(pr[2], 201)
            /\ Cardinality(RowsWith(Submitted(pr[1]))) = 1

\* every row carrying the apelido was written by one of the two requests
OnlyWrittenBy(pr) ==
    \A x \in RowsWith(Submitted(pr[1])) :
        /\ x \notin store0
        /\ \E i \in {1, 2} : Wrote(pr[i]) /\ x = RowOf(pr[i])

\* the id r generated is the id of no row but its own
NoIdClash(r) == Wrote(r) \/ \A x \in store : x.id # local[r].id

\* C1, amended: of two Creates with the same apelido at most one is answered
\* 201 and at most one row carries the apelido, under every interleaving;
\* each one whose insert the constraints decided is answered 201 or 422; and
\* exactly one is answered 201, the other 422, with exactly one row, when no
\* row with the apelido comes from elsewhere (none at startup, none from a
\* third Create) and neither generated id is the id of another row.
C1_AtMostOneCreated ==
    \A pr \in SameApelido :
        /\ ~(Answered(pr[1], 201) /\ Answered(pr[2], 201))
        /\ Cardinality(RowsWith(Submitted(pr[1]))) <= 1
        /\ InsertDecided(pr[1]) => Answered(pr[1], 201) \/ Answered(pr[1], 422)
        /\ InsertDecided(pr[1]) /\ InsertDecided(pr[2]) =>
              Answered(pr[1], 422) \/ Answered(pr[2], 422)
        /\ /\ InsertDecided(pr[1]) /\ InsertDecided(pr[2])
           /\ OnlyWrittenBy(pr)
           /\ NoIdClash(pr[1]) /\ NoIdClash(pr[2])
           => /\ \/ Answered(pr[1], 201) /\ Answered(pr[2], 422)
                 \/ Answered(pr[1], 422) /\ Answered(pr[2], 201)
              /\ Cardinality(RowsWith(Submitted(pr[1]))) = 1

\* two Creates with the same apelido raced on an empty table: one was
\* answered 201, the other 422
C1_Witness ==
    \E pr \in SameApelido :
        /\ store0 = {}
        /\ InsertDecided(pr[1]) /\ InsertDecided(pr[2])
        /\ Answered(pr[1], 201) /\ Answered(pr[2], 422)
        /\ Cardinality(RowsWith(Submitted(pr[1]))) = 1

(***************************************************************************)
(* C2                                                                      *)
(***************************************************************************)
\* the Location header of a 201 for this id
LocationOf(id) == <<"/pessoas/", Hyphenated(id)>>

\* C2 as stated: a valid Create whose apelido is not in the store is
\* answered 201 with Location /pessoas/{id}.  (Read in its favour: only
\* Creates whose insert no store fault disturbed are looked at, and only
\* apelidos that no other row carries to this day, so that the apelido was
\* free at every moment of the request.)
C2_AsStated ==
    \A c \in Reqs :
        /\ ValidCreate(c) /\ InsertDecided(c)
        /\ \A x \in RowsWith(Submitted(c)) : Wrote(c) /\ x = RowOf(c)
        => Answered(c, 201) /\ resp[c].location = LocationOf(local[c].id)

\* p is the JSON person GetByID must return for what Create c submitted:
\* the id in canonical form, apelido and nome as sent, nascimento the same
\* date written YYYY-MM-DD, stack null when absent or null and else the
\* strings sent, in order
ReturnsSubmitted(p, c) ==
    LET b == req[c].body IN
    /\ p.id = Hyphenated(local[c].id)
    /\ p.apelido = b.apelido.s
    /\ p.nome = b.nome.s
    /\ Len(p.nascimento) = 10
    /\ ParseDate(p.nascimento) = ParseDate(b.nascimento.s)
    /\ p.stack.some = (b.stack.t = "arr")
    /\ b.stack.t = "arr" =>
          /\ Len(p.stack.v) = Len(b.stack.a)
          /\ \A i \in 1..Len(b.stack.a) : p.stack.v[i] = b.stack.a[i].s

\* g is a GetByID on the id Create c was answered with
GetsIdOf(g, c) ==
    /\ req[g].kind = "get"
    /\ req[c].kind = "create" /\ Answered(c, 201)
    /\ ParseUuid(req[g].path).ok
    /\ ParseUuid(req[g].path).id = local[c].id

C2_State ==
    /\ \A c \in Reqs :
          ValidCreate(c) /\ pc[c] = "done" =>
             /\ Wrote(c) => /\ Answered(c, 201)
                            /\ resp[c].location = LocationOf(local[c].id)
                            /\ resp[c].text = <<>> /\ resp[c].json = "none"
             /\ local[c].res = UNIQUE_VIOLATION => Answered(c, 422)
             /\ Answered(c, 201) => Wrote(c)
    /\ \A g, c \in Reqs :
          GetsIdOf(g, c) /\ Answered(g, 200) =>
             /\ resp[g].json = "object"
             /\ \E p \in resp[g].people :
                   resp[g].people = {p} /\ ReturnsSubmitted(p, c)

C2_Step ==
    /\ \A c \in Reqs :
          /\ pc[c] = "insert" /\ pc'[c] = "respond"
          /\ local'[c].res \in {"ok", UNIQUE_VIOLATION}
          => (local'[c].res = "ok" <=>
                \A x \in store : x.apelido # local[c].p.apelido /\ x.id # local'[c].id)
    /\ \A g, c \in Reqs :
          /\ GetsIdOf(g, c)
          /\ pc[g] = "query" /\ resp'[g].state = "sent"
          => resp'[g].status = 200

\* C2, amended: a valid Create whose insert the constraints decide is
\* answered 201 with Location /pessoas/{id} exactly when no row carries its
\* apelido or its generated id at the moment of the insert, and 422
\* otherwise (an apelido that was free when the request came in may be taken
\* by a concurrent Create first); after a 201, every GetByID on that id that
\* is answered is answered 200 with the same id and the submitted apelido,
\* nome and stack (absent stays null, order kept), and nascimento as the same
\* date in the form YYYY-MM-DD.
C2_ReadAfterWrite == [](C2_State) /\ [][C2_Step]_vars

\* a Create with a stack and a date written without padding was answered
\* 201 and a GetByID on its id, given without hyphens, was answered 200
C2_Witness ==
    \E g, c \in Reqs :
        /\ store0 = {}
        /\ GetsIdOf(g, c) /\ Answered(g, 200)
        /\ req[c].body.stack.t = "arr"
        /\ req[c].body.nascimento.s = D2000
        /\ req[g].path = Simple(local[c].id)

(***************************************************************************)
(* C3                                                                      *)
(***************************************************************************)
\* Creates answered 201 so far
Count201 == Cardinality({c \in Reqs : req[c].kind = "create" /\ Answered(c, 201)})

\* Creates whose insert wrote a row so far
CountWrote == Cardinality({c \in Reqs : req[c].kind = "create" /\ Wrote(c)})

\* r is a Count whose query runs in this step and is answered
CountAnswers(r) ==
    /\ req[r].kind = "count"
    /\ pc[r] = "query"
    /\ resp'[r].state = "sent"

\* C3 as stated: starting from an empty table, the value a Count reports
\* is the number of Creates answered 201 so far.
C3_AsStated ==
    [][\A r \in Reqs :
          CountAnswers(r) /\ store0 = {} =>
              resp'[r].status = 200 /\ resp'[r].text = ToText(Count201)]_vars

C3_State ==
    /\ Cardinality(store) = Cardinality(store0) + CountWrote
    /\ Count201 <= CountWrote
    /\ CountWrote <= Count201
          + Cardinality({c \in Reqs : pc[c] = "respond" /\ Wrote(c)})

C3_Step ==
    /\ \A r \in Reqs :
          CountAnswers(r) =>
              /\ resp'[r].status = 200
              /\ resp'[r].text = ToText(Cardinality(store))
              /\ store = {} => resp'[r].text = <<"0">>
    /\ store \subseteq store'
    /\ Cardinality(store') =
          Cardinality(store)
          + Cardinality({c \in Reqs : pc[c] = "insert" /\ Wrote(c)'})

\* C3, amended: a Count that is answered reports, in decimal, the number of
\* rows in the table when its query runs ("0" on an empty table).  That
\* number rises by exactly 1 with each Create insert that succeeds and never
\* decreases; it is never less than the number of Creates answered 201 so
\* far, and exceeds it while a Create whose insert succeeded has not been
\* answered yet.
C3_CountIsRows == [](C3_State) /\ [][C3_Step]_vars

\* on a table that started empty, a Count was answered "1" while the Create
\* that wrote the row had not been answered yet
C3_Witness ==
    \E r, c \in Reqs :
        /\ store0 = {}
        /\ req[r].kind = "count" /\ Answered(r, 200) /\ resp[r].text = <<"1">>
        /\ pc[c] = "respond" /\ Wrote(c)
        /\ Count201 = 0

(***************************************************************************)
(* C4                                                                      *)
(***************************************************************************)
\* r is a Create whose body does not deserialize into PersonInput
InvalidCreate(r) == req[r].kind = "create" /\ req[r].body \in InvalidBodies

C4_State ==
    \A r \in Reqs :
        InvalidCreate(r) =>
            /\ pc[r] \in {"read_body", "done"}
            /\ ~conn[r]
            /\ local[r] = NoLocal
            /\ pc[r] = "done" => Answered(r, 422) \/ Answered(r, 400)

C4_Step ==
    \A r \in Reqs :
        InvalidCreate(r) /\ pc[r] = "read_body" /\ pc'[r] = "done" =>
            /\ store' = store
            /\ Borrowed' = Borrowed
            /\ resp'[r].status = 422 => resp'[r].text = <<"Unprocessable Entity">>

\* C4: a Create whose body fails deserialization is answered 422 (400 when
\* the body could not even be read), leaves the rows unchanged, and returns
\* before any connection is acquired or any statement is executed.
C4_InvalidBodyRejected == [](C4_State) /\ [][C4_Step]_vars

\* a Create whose stack holds a number was answered 422 on a table that
\* still holds what it held
C4_Witness ==
    \E r \in Reqs :
        /\ InvalidCreate(r)
        /\ req[r].body.stack.t = "arr"
        /\ Answered(r, 422)
        /\ store = store0 /\ store # {}

(***************************************************************************)
(* C5                                                                      *)
(***************************************************************************)
\* SQLSTATE class 23: integrity constraint violation
IntegrityClass == {"23000", "23505", "23514"}

\* C5 as stated: a failed insert is answered 422 for a uniqueness violation
\* and for every other integrity-constraint violation, 500 for every other
\* store error.
C5_AsStated ==
    \A r \in Reqs :
        req[r].kind = "create" /\ pc[r] = "done" /\ local[r].res \notin {"", "ok"} =>
            IF local[r].res \in IntegrityClass
            THEN Answered(r, 422)
            ELSE Answered(r, 500)

(***************************************************************************)
(* C6                                                                      *)
(***************************************************************************)
\* C6 as stated: no request ends without a response: a failed acquire,
\* prepare or query is answered 500.  (The GetByID whose id does not parse is
\* left to C10.)
C6_AsStated ==
    \A r \in Reqs :
        /\ pc[r] = "done"
        /\ req[r].kind = "get" => ParseUuid(req[r].path).ok
        => /\ resp[r].state = "sent"
           /\ resp[r].status \in {200, 201, 400, 404, 422, 500}

(***************************************************************************)
(* C7                                                                      *)
(***************************************************************************)
\* the ids a response's people carry
IdsIn(response) == {p.id : p \in response.people}

\* the response lists exactly these rows
ListsRows(response, rows) ==
    /\ response.json = "array"
    /\ IdsIn(response) = {Hyphenated(x.id) : x \in rows}
    /\ Cardinality(response.people) = Cardinality(rows)

\* r is a Search whose query runs in this step and is answered
SearchAnswers(r) ==
    /\ req[r].kind = "search"
    /\ pc[r] = "query"
    /\ resp'[r].state = "sent"

\* C7 as stated: a Search without t is not rejected: when answered, it is
\* answered 200 with all stored rows.
C7_AsStated ==
    \A r \in Reqs :
        req[r].kind = "search" /\ ~req[r].query.has_t /\ resp[r].state = "sent" =>
            Answered(r, 200) /\ ListsRows(resp[r], store)

C7_State ==
    \A r \in Reqs :
        req[r].kind = "search" /\ ~req[r].query.has_t =>
            /\ pc[r] = "done"
            /\ Answered(r, 400)
            /\ ~conn[r]
            /\ resp[r].people = {}

C7_Step ==
    \A r \in Reqs :
        SearchAnswers(r) /\ req[r].query = QueryT(<<>>) =>
            resp'[r].status = 200 /\ ListsRows(resp'[r], store)

\* C7, amended: a Search with t absent is rejected: the query extractor
\* answers 400 before search_people runs, so no connection is borrowed and no
\* row is returned.  A Search with t empty is not rejected: when answered, it
\* is answered 200 with all stored rows.
C7_AbsentRejectedEmptyAll == [](C7_State) /\ [][C7_Step]_vars

\* a Search without t was answered 400 and one with an empty t was answered
\* 200 with the row of the table
C7_Witness ==
    \E r, q \in Reqs :
        /\ req[r].kind = "search" /\ ~req[r].query.has_t /\ Answered(r, 400)
        /\ req[q].kind = "search" /\ req[q].query = QueryT(<<>>) /\ Answered(q, 200)
        /\ resp[q].people # {}

(***************************************************************************)
(* C8                                                                      *)
(***************************************************************************)
\* C8 as stated: a Search with term t is answered 200 with exactly the rows
\* whose search field contains t as a substring.
C8_AsStated ==
    [][\A r \in Reqs :
          SearchAnswers(r) =>
              /\ resp'[r].status = 200
              /\ ListsRows(resp'[r],
                           {x \in store : Contains(ForSearch(x), req[r].query.t)})]_vars

(***************************************************************************)
(* C9                                                                      *)
(***************************************************************************)
\* r is a GetByID whose query runs in this step and is answered
GetAnswers(r) ==
    /\ req[r].kind = "get"
    /\ pc[r] = "query"
    /\ resp'[r].state = "sent"

\* C9: a GetByID with a valid identifier that no stored row carries is
\* answered 404 with an empty body, whatever the table holds.
C9_UnknownIdNotFound ==
    [][\A r \in Reqs :
          /\ GetAnswers(r)
          /\ ParseUuid(req[r].path).ok
          /\ \A x \in store : x.id # ParseUuid(req[r].path).id
          => resp'[r] = [NoResp EXCEPT !.state = "sent", !.status = 404]]_vars

\* on a table that holds a row, a GetByID on another id was answered 404
C9_Witness ==
    \E r \in Reqs :
        /\ req[r].kind = "get"
        /\ ParseUuid(req[r].path).ok
        /\ Answered(r, 404)
        /\ store # {}
        /\ \A x \in store : x.id # ParseUuid(req[r].path).id

(***************************************************************************)
(* C10                                                                     *)
(***************************************************************************)
\* C10 as stated: a GetByID whose path id does not parse is answered 500.
C10_AsStated ==
    [][\A r \in Reqs :
          /\ req[r].kind = "get"
          /\ pc[r] = "parse" /\ pc'[r] = "done"
          /\ ~ParseUuid(req[r].path).ok
          => resp'[r].state = "sent" /\ resp'[r].status = 500]_vars

(***************************************************************************)
(* C11                                                                     *)
(***************************************************************************)
C11_State ==
    /\ bound => migrated
    /\ \A r \in Reqs : pc[r] # "idle" => migrated /\ bound
    /\ main_pc = "exited" => ~bound /\ \A r \in Reqs : pc[r] = "idle"

C11_Step ==
    /\ ~migrated /\ migrated' => main_pc = "migrate" /\ ~bound
    /\ ~bound /\ bound' => migrated /\ main_pc = "bind"
    /\ main_pc \in {"build", "get", "migrate"} /\ main_pc' # main_pc
       => \/ main_pc' = "exited" /\ ~bound' /\ ~(main_pc = "migrate" /\ migrated')
          \/ main_pc' \in {"get", "migrate", "bind"}
    /\ main_pc = "exited" => main_pc' = "exited" /\ ~bound' /\ pc' = pc

\* C11: the migrations succeed before the socket is bound, and no handler
\* runs before both; a failure of the pool's construction, of main's acquire
\* or of the migrations ends the process, which then never binds and never
\* serves a request.
C11_MigrateBeforeServe == [](C11_State) /\ [][C11_Step]_vars

\* a request was answered, after the migrations and the bind
C11_Witness ==
    \E r \in Reqs : pc[r] = "done" /\ resp[r].state = "sent" /\ migrated /\ bound

(***************************************************************************)
(* C12                                                                     *)
(***************************************************************************)
\* r waits in pool.get()
Waiting(r) == pc[r] = "acquire" /\ ~conn[r]

\* q's handler can take its next step
CanStep(q) == ENABLED (CountPrepare(q) \/ CountQuery(q))

\* C12: main and the handlers together never hold more than max_size (16)
\* connections.  A request at pool.get() is kept waiting exactly while none
\* is available: it proceeds once one is returned, and meanwhile every
\* request that holds a connection can take its next step and return it.
C12_PoolBounded ==
    /\ Borrowed <= max_size
    /\ \A r \in Reqs :
          Waiting(r) =>
             /\ Available <=> ENABLED CountAcquire(r)
             /\ \A q \in Reqs : conn[q] => CanStep(q)
             /\ crowd.hold > 0 => ENABLED CrowdRelease

\* the pool is exhausted by main and handlers; one request waits for a
\* connection while another holds one
C12_Witness ==
    /\ ~Available
    /\ main_conn
    /\ \E r, q \in Reqs : Waiting(r) /\ conn[q]

(***************************************************************************)
(* C13                                                                     *)
(***************************************************************************)
\* at this step the store executes r's insert
InsertRuns(r) == pc[r] = "insert" /\ pc'[r] = "respond"

C13_State ==
    \A r \in Reqs :
        req[r].kind = "create" =>
            /\ Answered(r, 201) =>
                  /\ Wrote(r)
                  /\ RowOf(r) \in store /\ RowOf(r) \notin store0
                  /\ resp[r].location = LocationOf(local[r].id)
            /\ resp[r].state = "sent" /\ resp[r].status # 201 => ~Wrote(r)
            /\ pc[r] = "done" /\ Wrote(r) => Answered(r, 201)

C13_Step ==
    /\ \A r \in Reqs :
          InsertRuns(r) =>
              LET row == NewRow(local'[r].id, local'[r].p) IN
              IF local'[r].res = "ok"
              THEN row \notin store /\ store' = store \cup {row}
              ELSE store' = store
    /\ store' # store => \E r \in Reqs : InsertRuns(r) /\ local'[r].res = "ok"

\* C13: a Create is answered 201 exactly when its insert added a row, one
\* row and no more; a Create answered 422 or 500 (or 400) added none and
\* changed none; the Location of the 201 names the id of the row added.
C13_CreatedIffRowAdded == [](C13_State) /\ [][C13_Step]_vars

\* one Create was answered 201, another 500 after the store failed its
\* insert, and the table holds the one row more
C13_Witness ==
    \E a, b \in Reqs :
        /\ req[a].kind = "create" /\ Answered(a, 201)
        /\ req[b].kind = "create" /\ Answered(b, 500)
        /\ store = store0 \cup {RowOf(a)}
        /\ RowOf(a) \notin store0

(***************************************************************************)
(* C14                                                                     *)
(***************************************************************************)
\* r's handler, or the front door on r's behalf, takes a step
Steps(r) == pc'[r] # pc[r]

\* C14: a row, once stored, is in every later table, with the same id,
\* apelido, nome, nascimento and stack (a row is its five fields); the
\* table never loses a row and gains at most one at a time; and no step of
\* a GetByID, a Search or a Count changes the table.
C14_RowsPermanent ==
    [][/\ store \subseteq store'
       /\ Cardinality(store') <= Cardinality(store) + 1
       /\ store0' = store0
       /\ \A r \in Reqs :
             Steps(r) /\ req'[r].kind \in {"get", "search", "count"} => store' = store]_vars

\* a row of the starting table is still there, unchanged, after a Create
\* added a row and a GetByID, a Search or a Count was answered
C14_Witness ==
    /\ SeedAB \in store0 /\ SeedAB \in store
    /\ store # store0
    /\ \E r \in Reqs : req[r].kind \in {"get", "search", "count"} /\ Answered(r, 200)

(***************************************************************************)
(* C15                                                                     *)
(***************************************************************************)
\* the ids of the rows stored
StoredIds == {x.id : x \in store}

C15_State ==
    \A x, y \in store : x # y => x.id # y.id /\ x.apelido # y.apelido

\* local'[r].id is the id Uuid::new_v4 returned, kept when the table's
\* constraints decided the insert
C15_Step ==
    \A r \in Reqs :
        InsertRuns(r) /\ local'[r].id \in StoredIds =>
            /\ store' = store
            /\ local'[r].res = UNIQUE_VIOLATION

\* C15: no two rows of the table share an id, no two share an apelido; a
\* Create whose generated id is the id of a stored row is refused with a
\* unique violation, adds no row, and is answered 422, not 201.
C15_KeysUnique ==
    /\ [](C15_State)
    /\ [][C15_Step]_vars
    /\ [](\A r \in Reqs : pc[r] = "done" /\ local[r].res = UNIQUE_VIOLATION => Answered(r, 422))

\* a Create with an apelido no row carries drew the id of a stored row and
\* was answered 422; the table is as it was
C15_Witness ==
    \E r \in Reqs :
        /\ ValidCreate(r) /\ Answered(r, 422)
        /\ local[r].id \in StoredIds
        /\ RowsWith(Submitted(r)) = {}
        /\ store = store0 /\ store # {}

(***************************************************************************)
(* C16                                                                     *)
(***************************************************************************)
\* C16 as stated: a GetByID whose path id does not parse never borrows a
\* connection from the pool.
C16_AsStated ==
    [][\A r \in Reqs :
          req[r].kind = "get" /\ ~ParseUuid(req[r].path).ok => ~conn'[r]]_vars

(***************************************************************************)
(* C17                                                                     *)
(***************************************************************************)
\* connections held by request handlers
HeldByHandlers == Cardinality({r \in Reqs : conn[r]}) + crowd.hold

\* connections the pool can hand to handlers
ForHandlers == max_size - (IF main_conn THEN 1 ELSE 0)

\* C17 as stated: once the server serves, main has returned the connection
\* it borrowed for the migrations, and all max_size (16) connections are
\* there for the handlers.
C17_AsStated ==
    main_pc = "serving" => ~main_conn /\ ForHandlers = max_size

(***************************************************************************)
(* C18                                                                     *)
(***************************************************************************)
\* r is in flight: received and not ended yet
InFlight(r) == pc[r] \notin {"idle", "done"}

\* C18: a handler that has ended, by a response of any status or by a
\* panic, holds no connection; so whenever no request is in flight the
\* handlers hold none, and the pool has for them what it had at the start.
C18_ReturnedOnExit ==
    /\ \A r \in Reqs : ~InFlight(r) => ~conn[r]
    /\ (\A r \in Reqs : ~InFlight(r)) /\ crowd = NoCrowd =>
          /\ HeldByHandlers = 0
          /\ max_size - Borrowed = ForHandlers

\* a GetByID panicked after its id was parsed, a Create was answered 422
\* after its insert ran: both held a connection, neither holds one now
C18_Witness ==
    \E g, c \in Reqs :
        /\ req[g].kind = "get" /\ local[g].id # 0 /\ resp[g].state = "closed"
        /\ req[c].kind = "create" /\ local[c].res = UNIQUE_VIOLATION /\ Answered(c, 422)
        /\ ~conn[g] /\ ~conn[c]

(***************************************************************************)
(* C19                                                                     *)
(***************************************************************************)
\* r has ended: answered, or its handler panicked
Ended(r) == pc[r] = "done"

\* a request waits in pool.get() only while it holds no connection, and
\* holds at most the one connection pool.get() gave it
C19_State ==
    /\ \A r \in Reqs : pc[r] = "acquire" => ~conn[r]
    /\ HeldByHandlers <= Cardinality({r \in Reqs : InFlight(r)}) + crowd.hold

\* C19: no request waits for a connection while it holds one, and every
\* request that waits in pool.get() leaves the wait (with a connection, or
\* with the acquire's failure) and ends, also when more requests are in
\* flight than the pool has connections.
C19_NoPoolDeadlock ==
    /\ [](C19_State)
    /\ \A r \in Reqs : Waiting(r) ~> ~Waiting(r)
    /\ \A r \in Reqs : Waiting(r) ~> Ended(r)

\* more requests are in flight than the pool has connections: the pool is
\* exhausted, and both a followed request and counted ones wait
C19_Witness ==
    /\ ~Available
    /\ crowd.wait > 0
    /\ \E r \in Reqs : Waiting(r)
    /\ Cardinality({r \in Reqs : InFlight(r)}) + crowd.wait + crowd.hold > max_size

====
